---- MODULE Spec2Model ----
(***************************************************************************)
(* polyproto ID-Cert profile: the KeyUsage extension codec                 *)
(* (src/certs/capabilities/key_usage.rs) and the IdCert issuance,          *)
(* decoding and conversion operations (src/certs/idcert.rs).               *)
(*                                                                         *)
(* The library is a set of functions over values.  The state is the record *)
(* of the last call: which operation ran (op), on which input (arg), with  *)
(* which result (ret), making which calls of its own (calls).              *)
(* keyCertSignArm is the one fact about the build the source leaves open   *)
(* (see OID_KEY_USAGE_KEY_CERT_SIGN).                                      *)
(***************************************************************************)
EXTENDS Integers, Sequences, FiniteSets, TLC

VARIABLES keyCertSignArm, op, arg, ret, calls

vars == <<keyCertSignArm, op, arg, ret, calls>>

----------------------------------------------------------------------------
(* Bounds *)

\* longest payload, in octets, of the multi-octet payloads fed to the decoders
MaxPayloadLen == 2

\* largest number of values inside an input Attribute
MaxValues == 2

\* latest point in time of a validity period
MaxTime == 2

----------------------------------------------------------------------------
(* Result values *)

Ok(v) == [ok |-> TRUE, val |-> v]

IncompatibleVariantForConversion(reason) ==
    [ok |-> FALSE, err |-> "IncompatibleVariantForConversion", reason |-> reason]

UnknownCriticalExtension(oid) ==
    [ok |-> FALSE, err |-> "UnknownCriticalExtension", oid |-> oid]

----------------------------------------------------------------------------
(* ObjectIdentifier: the dotted string is the sequence of its arcs; the    *)
(* ObjectIdentifier value is its BER content (first two arcs packed in one *)
(* octet, every further arc below 128 in one octet).                       *)

ObjectIdentifier_from_str(s) == <<40 * s[1] + s[2]>> \o SubSeq(s, 3, Len(s))

ObjectIdentifier_to_string(oid) ==
    <<oid[1] \div 40, oid[1] % 40>> \o SubSeq(oid, 2, Len(oid))

\* The OID string constants of certs/capabilities/mod.rs.
OID_KEY_USAGE_DIGITAL_SIGNATURE == <<1, 3, 6, 1, 5, 5, 7, 3, 3>>
OID_KEY_USAGE_CRL_SIGN == <<1, 3, 6, 1, 5, 5, 7, 3, 2>>
OID_KEY_USAGE_CONTENT_COMMITMENT == <<1, 3, 6, 1, 5, 5, 7, 3, 8>>
OID_KEY_USAGE_KEY_ENCIPHERMENT == <<1, 3, 6, 1, 5, 5, 7, 3, 1>>
OID_KEY_USAGE_DATA_ENCIPHERMENT == <<1, 3, 6, 1, 5, 5, 7, 3, 4>>
OID_KEY_USAGE_KEY_AGREEMENT == <<1, 3, 6, 1, 5, 5, 7, 3, 9>>
OID_KEY_USAGE_ENCIPHER_ONLY == <<1, 3, 6, 1, 5, 5, 7, 3, 7>>
OID_KEY_USAGE_DECIPHER_ONLY == <<1, 3, 6, 1, 5, 5, 7, 3, 6>>

\* The arms that precede the OID_KEY_USAGE_KEY_CERT_SIGN arm in the match of
\* TryFrom<Attribute> (key_usage.rs:111-117), in source order.
EarlierArms ==
    << OID_KEY_USAGE_CONTENT_COMMITMENT, OID_KEY_USAGE_CRL_SIGN,
       OID_KEY_USAGE_DATA_ENCIPHERMENT, OID_KEY_USAGE_DECIPHER_ONLY,
       OID_KEY_USAGE_DIGITAL_SIGNATURE, OID_KEY_USAGE_ENCIPHER_ONLY,
       OID_KEY_USAGE_KEY_AGREEMENT >>

\* key_usage.rs:118-119: the compiler reports the OID_KEY_USAGE_KEY_CERT_SIGN
\* arm as unreachable.  Every earlier arm is a string constant, so the
\* constant has the value of one of them; which one is not visible in this
\* file, and keyCertSignArm ranges over all seven.
OID_KEY_USAGE_KEY_CERT_SIGN == EarlierArms[keyCertSignArm]

----------------------------------------------------------------------------
(* KeyUsage *)

Variants ==
    { "DigitalSignature", "CrlSign", "ContentCommitment", "KeyEncipherment",
      "DataEncipherment", "KeyAgreement", "KeyCertSign", "EncipherOnly",
      "DecipherOnly" }

KeyUsage == [variant : Variants, flag : BOOLEAN]

\* impl From<KeyUsage> for bool
bool_from_KeyUsage(value) == value.flag

\* impl From<KeyUsage> for ObjectIdentifier
ObjectIdentifier_from_KeyUsage(value) ==
    ObjectIdentifier_from_str(
        CASE value.variant = "DigitalSignature" -> OID_KEY_USAGE_DIGITAL_SIGNATURE
          [] value.variant = "CrlSign" -> OID_KEY_USAGE_CRL_SIGN
          [] value.variant = "ContentCommitment" -> OID_KEY_USAGE_CONTENT_COMMITMENT
          [] value.variant = "KeyEncipherment" -> OID_KEY_USAGE_KEY_ENCIPHERMENT
          [] value.variant = "DataEncipherment" -> OID_KEY_USAGE_DATA_ENCIPHERMENT
          [] value.variant = "KeyAgreement" -> OID_KEY_USAGE_KEY_AGREEMENT
          [] value.variant = "KeyCertSign" -> OID_KEY_USAGE_KEY_CERT_SIGN
          [] value.variant = "EncipherOnly" -> OID_KEY_USAGE_ENCIPHER_ONLY
          [] value.variant = "DecipherOnly" -> OID_KEY_USAGE_DECIPHER_ONLY)

\* impl From<KeyUsage> for Any: a Boolean-tagged Any whose value is one octet
Any_from_KeyUsage(value) ==
    [tag |-> "Boolean",
     value |-> IF bool_from_KeyUsage(value) THEN <<255>> ELSE <<0>>]

\* impl From<KeyUsage> for Attribute: the Any inserted in an empty SetOfVec
Attribute_from_KeyUsage(value) ==
    [oid |-> ObjectIdentifier_from_KeyUsage(value),
     values |-> <<Any_from_KeyUsage(value)>>]

\* bool::to_der(): the DER encoding of a BOOLEAN, header included
\* (tag 0x01, length 0x01, then the content octet)
bool_to_der(b) == <<1, 1, IF b THEN 255 ELSE 0>>

\* Variant of the conversion that marks the extension critical only when the
\* flag is set.
Extension_from_KeyUsage_FlagAsCritical(value) ==
    [extn_id |-> ObjectIdentifier_from_KeyUsage(value),
     critical |-> bool_from_KeyUsage(value),
     extn_value |-> bool_to_der(bool_from_KeyUsage(value))]

\* impl From<KeyUsage> for Extension
Extension_from_KeyUsage(value) ==
    [extn_id |-> ObjectIdentifier_from_KeyUsage(value),
     critical |-> TRUE,
     extn_value |-> bool_to_der(bool_from_KeyUsage(value))]

\* The arms of the OID match of both decoders, in source order
\* (key_usage.rs:111-120 and 178-186).
MatchArms ==
    << [pat |-> OID_KEY_USAGE_CONTENT_COMMITMENT, variant |-> "ContentCommitment"],
       [pat |-> OID_KEY_USAGE_CRL_SIGN, variant |-> "CrlSign"],
       [pat |-> OID_KEY_USAGE_DATA_ENCIPHERMENT, variant |-> "DataEncipherment"],
       [pat |-> OID_KEY_USAGE_DECIPHER_ONLY, variant |-> "DecipherOnly"],
       [pat |-> OID_KEY_USAGE_DIGITAL_SIGNATURE, variant |-> "DigitalSignature"],
       [pat |-> OID_KEY_USAGE_ENCIPHER_ONLY, variant |-> "EncipherOnly"],
       [pat |-> OID_KEY_USAGE_KEY_AGREEMENT, variant |-> "KeyAgreement"],
       [pat |-> OID_KEY_USAGE_KEY_CERT_SIGN, variant |-> "KeyCertSign"],
       [pat |-> OID_KEY_USAGE_KEY_ENCIPHERMENT, variant |-> "KeyEncipherment"] >>

\* A match takes the first arm whose pattern equals the scrutinee.
MatchOid(s, boolean_value) ==
    LET hits == {i \in 1..Len(MatchArms) : MatchArms[i].pat = s}
    IN  IF hits = {}
        THEN IncompatibleVariantForConversion(
                 "The OID of the attribute does not match any known KeyUsage variant")
        ELSE LET first == CHOOSE i \in hits : \A j \in hits : i <= j
             IN  Ok([variant |-> MatchArms[first].variant, flag |-> boolean_value])

\* impl TryFrom<Attribute> for KeyUsage
KeyUsage_try_from_Attribute(value) ==
    IF Len(value.values) # 1
    THEN IncompatibleVariantForConversion(
             "This attribute does not store exactly one value, as would be expected for a KeyUsage attribute")
    ELSE LET inner_value == value.values[1]
         IN  IF inner_value.tag # "Boolean"
             THEN IncompatibleVariantForConversion(
                      "Only Any objects with boolean tags can be converted to a KeyUsage enum variant")
             ELSE IF inner_value.value \notin {<<0>>, <<255>>, <<1>>}
             THEN IncompatibleVariantForConversion(
                      "Encountered unexpected value for Boolean tag")
             ELSE MatchOid(ObjectIdentifier_to_string(value.oid),
                           inner_value.value # <<0>>)

\* the matches! of TryFrom<Extension> (key_usage.rs:148-160)
IsKnownOidString(s) ==
    s \in { OID_KEY_USAGE_CONTENT_COMMITMENT, OID_KEY_USAGE_CRL_SIGN,
            OID_KEY_USAGE_DATA_ENCIPHERMENT, OID_KEY_USAGE_DATA_ENCIPHERMENT,
            OID_KEY_USAGE_DECIPHER_ONLY, OID_KEY_USAGE_DIGITAL_SIGNATURE,
            OID_KEY_USAGE_ENCIPHER_ONLY, OID_KEY_USAGE_KEY_AGREEMENT,
            OID_KEY_USAGE_KEY_CERT_SIGN, OID_KEY_USAGE_KEY_ENCIPHERMENT }

\* TryFrom<Extension> with a lenient boolean: any nonzero single octet is true
KeyUsage_try_from_Extension_Lenient(value) ==
    IF value.critical /\ ~IsKnownOidString(ObjectIdentifier_to_string(value.extn_id))
    THEN UnknownCriticalExtension(value.extn_id)
    ELSE IF Len(value.extn_value) # 1
    THEN IncompatibleVariantForConversion(
             "Encountered unexpected value for Boolean tag")
    ELSE MatchOid(ObjectIdentifier_to_string(value.extn_id),
                  value.extn_value # <<0>>)

\* TryFrom<Extension> with the boolean decoded before the criticality check
KeyUsage_try_from_Extension_BoolFirst(value) ==
    IF value.extn_value \notin {<<0>>, <<255>>, <<1>>}
    THEN IncompatibleVariantForConversion(
             "Encountered unexpected value for Boolean tag")
    ELSE IF value.critical
            /\ ~IsKnownOidString(ObjectIdentifier_to_string(value.extn_id))
    THEN UnknownCriticalExtension(value.extn_id)
    ELSE MatchOid(ObjectIdentifier_to_string(value.extn_id),
                  value.extn_value # <<0>>)

\* impl TryFrom<Extension> for KeyUsage
KeyUsage_try_from_Extension(value) ==
    IF value.critical /\ ~IsKnownOidString(ObjectIdentifier_to_string(value.extn_id))
    THEN UnknownCriticalExtension(value.extn_id)
    ELSE IF value.extn_value \notin {<<0>>, <<255>>, <<1>>}
    THEN IncompatibleVariantForConversion(
             "Encountered unexpected value for Boolean tag")
    ELSE MatchOid(ObjectIdentifier_to_string(value.extn_id),
                  value.extn_value # <<0>>)

----------------------------------------------------------------------------
(* Values of the certificate data model *)

\* serial numbers are at most this many octets long
MaxSerialOctets == 20

\* AlgorithmIdentifier values
Algorithms == <<"ed25519", "ecdsa-with-SHA256">>

\* Name values; NameConforms tells the names the profile accepts
Names == <<"CN=flori,DC=polyphony,DC=chat", "OU=stray">>

NameConforms(name) == name = Names[1]

\* public keys, by number; private key k signs for public key k
PublicKeys == {1, 2}

PrivateKeys == {[id |-> k, algorithm |-> Algorithms[k]] : k \in PublicKeys}

\* PrivateKey::algorithm_identifier
algorithm_identifier(signing_key) == signing_key.algorithm

Ones(n) == [i \in 1..n |-> 1]

\* Uint values: zero, small positive numbers, the longest serial the profile
\* allows and one octet more
SerialNumbers == { <<0>>, <<1>>, Ones(MaxSerialOctets), Ones(MaxSerialOctets + 1) }

Times == 0..MaxTime

Validities == [not_before : Times, not_after : Times]

\* Capabilities, reduced to the CA flag of its BasicConstraints
Capabilities == [ca : BOOLEAN]

\* IdCsr, reduced to the fields the issuance reads
IdCsrs ==
    { [inner_csr |-> [subject |-> n, subject_public_key |-> k, capabilities |-> c]] :
        n \in {Names[i] : i \in 1..Len(Names)}, k \in PublicKeys, c \in Capabilities }

\* Option<Target>
Targets == {"None", "HomeServer", "Actor"}

Err(kind, reason) == [ok |-> FALSE, err |-> kind, reason |-> reason]

----------------------------------------------------------------------------
(* DER: a value is a tag octet, a length octet and the content octets *)

Tlv(tag, content) == <<tag, Len(content)>> \o content

TagInteger == 2
TagBitString == 3
TagOctetString == 4
TagSequence == 48
TagExtensions == 163

IndexOf(table, v) == CHOOSE i \in 1..Len(table) : table[i] = v

RECURSIVE Sum(_)
Sum(bytes) == IF bytes = <<>> THEN 0 ELSE Head(bytes) + Sum(Tail(bytes))

\* the extensions a Capabilities value is written as: basicConstraints
\* (2.5.29.19), critical, holding the CA flag
Extensions_from_Capabilities(capabilities) ==
    << [extn_id |-> ObjectIdentifier_from_str(<<2, 5, 29, 19>>),
        critical |-> TRUE,
        extn_value |-> <<IF capabilities.ca THEN 255 ELSE 0>>] >>

\* Capabilities read back from the extensions of a TbsCertificate
Capabilities_try_from_Extensions(extensions) ==
    IF \E i \in 1..Len(extensions) :
           /\ extensions[i].critical
           /\ extensions[i].extn_id # ObjectIdentifier_from_str(<<2, 5, 29, 19>>)
    THEN Err("InvalidInput", "unknown critical extension")
    ELSE IF Len(extensions) # 1
            \/ extensions[1].extn_id # ObjectIdentifier_from_str(<<2, 5, 29, 19>>)
            \/ extensions[1].extn_value \notin {<<0>>, <<255>>}
    THEN Err("InvalidInput", "malformed extension set")
    ELSE Ok([ca |-> extensions[1].extn_value = <<255>>])

\* TbsCertificate from IdCertTbs; a SerialNumber holds at most 20 octets
TbsCertificate_try_from_IdCertTbs(tbs) ==
    IF Len(tbs.serial_number) > MaxSerialOctets
    THEN Err("InvalidInput", "serial number too long")
    ELSE Ok([ version |-> 2,
              serial_number |-> tbs.serial_number,
              signature |-> tbs.signature_algorithm,
              issuer |-> tbs.issuer,
              validity |-> tbs.validity,
              subject |-> tbs.subject,
              subject_public_key_info |-> tbs.subject_public_key,
              extensions |-> Extensions_from_Capabilities(tbs.capabilities) ])

\* IdCertTbs from TbsCertificate: version 3 and a readable extension set
IdCertTbs_try_from_TbsCertificate(tbs) ==
    IF tbs.version # 2
    THEN Err("InvalidInput", "not a version 3 certificate")
    ELSE LET capabilities == Capabilities_try_from_Extensions(tbs.extensions)
         IN  IF ~capabilities.ok
             THEN capabilities
             ELSE Ok([ serial_number |-> tbs.serial_number,
                       signature_algorithm |-> tbs.signature,
                       issuer |-> tbs.issuer,
                       validity |-> tbs.validity,
                       subject |-> tbs.subject,
                       subject_public_key |-> tbs.subject_public_key_info,
                       capabilities |-> capabilities.val ])

Extension_to_der(e) ==
    Tlv(TagSequence,
        Tlv(6, e.extn_id) \o Tlv(1, <<IF e.critical THEN 255 ELSE 0>>)
          \o Tlv(TagOctetString, e.extn_value))

RECURSIVE Extensions_to_der(_)
Extensions_to_der(es) ==
    IF es = <<>> THEN <<>> ELSE Extension_to_der(Head(es)) \o Extensions_to_der(Tail(es))

\* TbsCertificate::to_der
TbsCertificate_to_der(tbs) ==
    Tlv(TagSequence,
        Tlv(160, Tlv(TagInteger, <<tbs.version>>))
          \o Tlv(TagInteger, tbs.serial_number)
          \o Tlv(TagSequence, <<IndexOf(Algorithms, tbs.signature)>>)
          \o Tlv(TagSequence, <<IndexOf(Names, tbs.issuer)>>)
          \o Tlv(TagSequence, <<tbs.validity.not_before, tbs.validity.not_after>>)
          \o Tlv(TagSequence, <<IndexOf(Names, tbs.subject)>>)
          \o Tlv(TagSequence, <<tbs.subject_public_key_info>>)
          \o Tlv(TagExtensions, Extensions_to_der(tbs.extensions)))

\* IdCertTbs::to_der
IdCertTbs_to_der(tbs) ==
    LET generic == TbsCertificate_try_from_IdCertTbs(tbs)
    IN  IF generic.ok THEN Ok(TbsCertificate_to_der(generic.val)) ELSE generic

\* PrivateKey::sign: the signer and a digest of the signed octets
sign(signing_key, data) == <<signing_key.id, Sum(data) % 256>>

\* Signature::to_bitstring and Signature::from_bytes
to_bitstring(signature) == [unused_bits |-> 0, raw_bytes |-> signature]

from_bytes(raw_bytes) == raw_bytes

----------------------------------------------------------------------------
(* Validation (Constrained) *)

OkUnit == [ok |-> TRUE]

\* IdCert::validate(target)
validate(cert, target) ==
    LET tbs == cert.id_cert_tbs
    IN  IF \/ Len(tbs.serial_number) > MaxSerialOctets
           \/ \A i \in 1..Len(tbs.serial_number) : tbs.serial_number[i] = 0
        THEN Err("ConstraintError", "serial number")
        ELSE IF tbs.validity.not_before > tbs.validity.not_after
        THEN Err("ConstraintError", "validity")
        ELSE IF ~NameConforms(tbs.issuer) \/ ~NameConforms(tbs.subject)
        THEN Err("ConstraintError", "name")
        ELSE IF target = "HomeServer" /\ ~tbs.capabilities.ca
        THEN Err("ConstraintError", "home server certificate without CA flag")
        ELSE IF target = "Actor" /\ tbs.capabilities.ca
        THEN Err("ConstraintError", "actor certificate with CA flag")
        ELSE OkUnit

----------------------------------------------------------------------------
(* Issuance.  An operation yields its result and the calls it made. *)

\* the body of from_ca_csr and from_actor_csr, which differ in the target
Issue(id_csr, signing_key, serial_number, issuer, validity, target) ==
    LET signature_algorithm == algorithm_identifier(signing_key)
        id_cert_tbs ==
            [ serial_number |-> serial_number,
              signature_algorithm |-> signature_algorithm,
              issuer |-> issuer,
              validity |-> validity,
              subject |-> id_csr.inner_csr.subject,
              subject_public_key |-> id_csr.inner_csr.subject_public_key,
              capabilities |-> id_csr.inner_csr.capabilities ]
        der == IdCertTbs_to_der(id_cert_tbs)
    IN  IF ~der.ok
        THEN [result |-> der, calls |-> <<"to_der">>]
        ELSE LET signature == sign(signing_key, der.val)
                 cert == [id_cert_tbs |-> id_cert_tbs, signature |-> signature]
                 checked == validate(cert, target)
             IN  [ result |-> IF checked.ok THEN Ok(cert) ELSE checked,
                   calls |-> <<"to_der", "sign", "validate">> ]

\* the issuance without the validation of the assembled certificate
IssueUnvalidated(id_csr, signing_key, serial_number, issuer, validity) ==
    LET id_cert_tbs ==
            [ serial_number |-> serial_number,
              signature_algorithm |-> algorithm_identifier(signing_key),
              issuer |-> issuer,
              validity |-> validity,
              subject |-> id_csr.inner_csr.subject,
              subject_public_key |-> id_csr.inner_csr.subject_public_key,
              capabilities |-> id_csr.inner_csr.capabilities ]
        der == IdCertTbs_to_der(id_cert_tbs)
    IN  IF ~der.ok
        THEN [result |-> der, calls |-> <<"to_der">>]
        ELSE [ result |-> Ok([id_cert_tbs |-> id_cert_tbs,
                              signature |-> sign(signing_key, der.val)]),
               calls |-> <<"to_der", "sign">> ]

\* from_ca_csr returning the certificate it signed, not validated
from_ca_csr_Unvalidated(id_csr, signing_key, serial_number, issuer, validity) ==
    IssueUnvalidated(id_csr, signing_key, serial_number, issuer, validity)

\* from_actor_csr validating against the target of from_ca_csr
from_actor_csr_HomeServerTarget(id_csr, signing_key, serial_number, issuer, validity) ==
    Issue(id_csr, signing_key, serial_number, issuer, validity, "HomeServer")

\* IdCert::from_ca_csr
from_ca_csr(id_csr, signing_key, serial_number, issuer, validity) ==
    Issue(id_csr, signing_key, serial_number, issuer, validity, "HomeServer")

\* IdCert::from_actor_csr
from_actor_csr(id_csr, signing_key, serial_number, issuer, validity) ==
    Issue(id_csr, signing_key, serial_number, issuer, validity, "Actor")

----------------------------------------------------------------------------
(* The generic Certificate container and its DER and PEM forms *)

\* Certificate::to_der
Certificate_to_der(c) ==
    Tlv(TagSequence,
        TbsCertificate_to_der(c.tbs_certificate)
          \o Tlv(TagSequence, <<IndexOf(Algorithms, c.signature_algorithm)>>)
          \o Tlv(TagBitString, <<c.signature.unused_bits>> \o c.signature.raw_bytes))

DerError == Err("ConversionError", "DER")

\* the values a run of octets holds, one after the other
RECURSIVE Items(_)
Items(bytes) ==
    IF bytes = <<>>
    THEN Ok(<<>>)
    ELSE IF Len(bytes) < 2 \/ Len(bytes) < 2 + bytes[2]
    THEN DerError
    ELSE LET rest == Items(SubSeq(bytes, 3 + bytes[2], Len(bytes)))
         IN  IF ~rest.ok
             THEN rest
             ELSE Ok(<<[tag |-> bytes[1], content |-> SubSeq(bytes, 3, 2 + bytes[2])]>>
                       \o rest.val)

HasTags(items, tags) ==
    /\ items.ok
    /\ Len(items.val) = Len(tags)
    /\ \A i \in 1..Len(tags) : items.val[i].tag = tags[i]

IsIndex(content, table) == Len(content) = 1 /\ content[1] \in 1..Len(table)

Extension_from_items(fields) ==
    [extn_id |-> fields.val[1].content,
     critical |-> fields.val[2].content = <<255>>,
     extn_value |-> fields.val[3].content]

ExtensionWellFormed(item) ==
    /\ item.tag = TagSequence
    /\ LET fields == Items(item.content)
       IN  /\ HasTags(fields, <<6, 1, TagOctetString>>)
           /\ Len(fields.val[1].content) >= 1
           /\ fields.val[2].content \in {<<0>>, <<255>>}

\* TbsCertificate::from_der, given the content of its SEQUENCE
TbsCertificate_from_items(content) ==
    LET f == Items(content)
    IN  IF ~HasTags(f, <<160, TagInteger, TagSequence, TagSequence, TagSequence,
                         TagSequence, TagSequence, TagExtensions>>)
        THEN DerError
        ELSE LET version == Items(f.val[1].content)
                 extensions == Items(f.val[8].content)
             IN  IF \/ ~HasTags(version, <<TagInteger>>)
                    \/ Len(version.val[1].content) # 1
                    \/ Len(f.val[2].content) \notin 1..MaxSerialOctets
                    \/ ~IsIndex(f.val[3].content, Algorithms)
                    \/ ~IsIndex(f.val[4].content, Names)
                    \/ Len(f.val[5].content) # 2
                    \/ ~IsIndex(f.val[6].content, Names)
                    \/ Len(f.val[7].content) # 1
                    \/ ~extensions.ok
                 THEN DerError
                 ELSE IF \E i \in 1..Len(extensions.val) :
                             ~ExtensionWellFormed(extensions.val[i])
                 THEN DerError
                 ELSE Ok([ version |-> version.val[1].content[1],
                           serial_number |-> f.val[2].content,
                           signature |-> Algorithms[f.val[3].content[1]],
                           issuer |-> Names[f.val[4].content[1]],
                           validity |-> [not_before |-> f.val[5].content[1],
                                         not_after |-> f.val[5].content[2]],
                           subject |-> Names[f.val[6].content[1]],
                           subject_public_key_info |-> f.val[7].content[1],
                           extensions |->
                               [i \in 1..Len(extensions.val) |->
                                   Extension_from_items(Items(extensions.val[i].content))] ])

\* Certificate::from_der
Certificate_from_der(bytes) ==
    LET top == Items(bytes)
    IN  IF ~HasTags(top, <<TagSequence>>)
        THEN DerError
        ELSE LET f == Items(top.val[1].content)
             IN  IF ~HasTags(f, <<TagSequence, TagSequence, TagBitString>>)
                 THEN DerError
                 ELSE LET tbs == TbsCertificate_from_items(f.val[1].content)
                      IN  IF \/ ~tbs.ok
                             \/ ~IsIndex(f.val[2].content, Algorithms)
                             \/ Len(f.val[3].content) < 1
                          THEN DerError
                          ELSE IF f.val[3].content[1] \notin 0..7
                          THEN DerError
                          ELSE Ok([ tbs_certificate |-> tbs.val,
                                    signature_algorithm |->
                                        Algorithms[f.val[2].content[1]],
                                    signature |->
                                        [unused_bits |-> f.val[3].content[1],
                                         raw_bytes |-> Tail(f.val[3].content)] ])

\* Base64: three octets make four sextets; 64 stands for the padding sign
Pad == 64

RECURSIVE Base64Encode(_)
Base64Encode(bytes) ==
    IF bytes = <<>>
    THEN <<>>
    ELSE LET b1 == bytes[1]
             b2 == IF Len(bytes) >= 2 THEN bytes[2] ELSE 0
             b3 == IF Len(bytes) >= 3 THEN bytes[3] ELSE 0
         IN  << b1 \div 4,
                (b1 % 4) * 16 + b2 \div 16,
                IF Len(bytes) >= 2 THEN (b2 % 16) * 4 + b3 \div 64 ELSE Pad,
                IF Len(bytes) >= 3 THEN b3 % 64 ELSE Pad >>
               \o (IF Len(bytes) > 3 THEN Base64Encode(SubSeq(bytes, 4, Len(bytes)))
                   ELSE <<>>)

RECURSIVE Base64Decode(_)
Base64Decode(text) ==
    IF text = <<>>
    THEN Ok(<<>>)
    ELSE IF Len(text) < 4 \/ text[1] = Pad \/ text[2] = Pad
            \/ (text[3] = Pad /\ text[4] # Pad)
            \/ (text[4] = Pad /\ Len(text) > 4)
    THEN Err("ConversionError", "PEM")
    ELSE LET b1 == text[1] * 4 + text[2] \div 16
             b2 == (text[2] % 16) * 16 + (IF text[3] = Pad THEN 0 ELSE text[3] \div 4)
             b3 == (IF text[3] = Pad THEN 0 ELSE (text[3] % 4) * 64)
                     + (IF text[4] = Pad THEN 0 ELSE text[4])
             group == IF text[3] = Pad THEN <<b1>>
                      ELSE IF text[4] = Pad THEN <<b1, b2>>
                      ELSE <<b1, b2, b3>>
             rest == Base64Decode(SubSeq(text, 5, Len(text)))
         IN  IF ~rest.ok THEN rest ELSE Ok(group \o rest.val)

LineEndings == {"LF", "CRLF"}

\* Certificate::to_pem
Certificate_to_pem(c, line_ending) ==
    [label |-> "CERTIFICATE",
     line_ending |-> line_ending,
     body |-> Base64Encode(Certificate_to_der(c))]

\* Certificate::from_pem
Certificate_from_pem(pem) ==
    IF pem.label # "CERTIFICATE"
    THEN Err("ConversionError", "PEM")
    ELSE LET bytes == Base64Decode(pem.body)
         IN  IF ~bytes.ok THEN bytes ELSE Certificate_from_der(bytes.val)

----------------------------------------------------------------------------
(* IdCert and the generic Certificate *)

\* impl TryFrom<IdCert> for Certificate
Certificate_try_from_IdCert(value) ==
    LET tbs_certificate == TbsCertificate_try_from_IdCertTbs(value.id_cert_tbs)
    IN  IF ~tbs_certificate.ok
        THEN tbs_certificate
        ELSE Ok([ tbs_certificate |-> tbs_certificate.val,
                  signature_algorithm |-> value.id_cert_tbs.signature_algorithm,
                  signature |-> to_bitstring(value.signature) ])

\* TryFrom<Certificate> reading the whole content of the BIT STRING, the
\* octet counting the unused bits included, as the signature
IdCert_try_from_Certificate_WholeBitString(value) ==
    LET id_cert_tbs == IdCertTbs_try_from_TbsCertificate(value.tbs_certificate)
    IN  IF ~id_cert_tbs.ok
        THEN id_cert_tbs
        ELSE Ok([ id_cert_tbs |-> id_cert_tbs.val,
                  signature |-> from_bytes(<<value.signature.unused_bits>>
                                              \o value.signature.raw_bytes) ])

\* impl TryFrom<Certificate> for IdCert
IdCert_try_from_Certificate(value) ==
    LET id_cert_tbs == IdCertTbs_try_from_TbsCertificate(value.tbs_certificate)
    IN  IF ~id_cert_tbs.ok
        THEN id_cert_tbs
        ELSE Ok([ id_cert_tbs |-> id_cert_tbs.val,
                  signature |-> from_bytes(value.signature.raw_bytes) ])

\* IdCert::from_der_unchecked
from_der_unchecked(value) ==
    LET generic == Certificate_from_der(value)
    IN  IF ~generic.ok THEN generic ELSE IdCert_try_from_Certificate(generic.val)

\* from_der returning the parsed value unchecked when no target is given
from_der_SkipWithoutTarget(value, target) ==
    LET cert == from_der_unchecked(value)
    IN  IF ~cert.ok \/ target = "None"
        THEN [result |-> cert, calls |-> <<"from_der_unchecked">>]
        ELSE LET checked == validate(cert.val, target)
             IN  [ result |-> IF ~checked.ok THEN checked ELSE cert,
                   calls |-> <<"from_der_unchecked", "validate">> ]

\* IdCert::from_der, with the calls it makes
from_der(value, target) ==
    LET cert == from_der_unchecked(value)
    IN  IF ~cert.ok
        THEN [result |-> cert, calls |-> <<"from_der_unchecked">>]
        ELSE LET checked == validate(cert.val, target)
             IN  [ result |-> IF ~checked.ok THEN checked ELSE cert,
                   calls |-> <<"from_der_unchecked", "validate">> ]

\* IdCert::to_der
to_der(self) ==
    LET generic == Certificate_try_from_IdCert(self)
    IN  IF ~generic.ok THEN generic ELSE Ok(Certificate_to_der(generic.val))

\* IdCert::from_pem_unchecked
from_pem_unchecked(pem) ==
    LET generic == Certificate_from_pem(pem)
    IN  IF ~generic.ok THEN generic ELSE IdCert_try_from_Certificate(generic.val)

\* IdCert::from_pem, with the calls it makes
from_pem(pem, target) ==
    LET cert == from_pem_unchecked(pem)
    IN  IF ~cert.ok
        THEN [result |-> cert, calls |-> <<"from_pem_unchecked">>]
        ELSE LET checked == validate(cert.val, target)
             IN  [ result |-> IF ~checked.ok THEN checked ELSE cert,
                   calls |-> <<"from_pem_unchecked", "validate">> ]

\* IdCert::to_pem
to_pem(self, line_ending) ==
    LET generic == Certificate_try_from_IdCert(self)
    IN  IF ~generic.ok THEN generic ELSE Ok(Certificate_to_pem(generic.val, line_ending))

\* signature_data encoding the whole certificate, signature included
signature_data_WholeCertificate(self) == to_der(self)

\* IdCert::signature_data
signature_data(self) == IdCertTbs_to_der(self.id_cert_tbs)

\* IdCertTbs::valid_at: the validity period, bounds included, holds time
IdCertTbs_valid_at(tbs, time) ==
    tbs.validity.not_before <= time /\ time <= tbs.validity.not_after

\* valid_at looking at the validity period only
valid_at_PeriodOnly(self, time, target) ==
    IdCertTbs_valid_at(self.id_cert_tbs, time)

\* IdCert::valid_at
valid_at(self, time, target) ==
    IdCertTbs_valid_at(self.id_cert_tbs, time) /\ validate(self, target).ok

----------------------------------------------------------------------------
(* Inputs of the decoders *)

Octets == 0..255

\* octets used in the payloads that are not exactly one octet long
EdgeOctets == {0, 1, 255}

SeqsUpTo(S, n) == UNION {[1..k -> S] : k \in 0..n}

\* every single octet, the empty payload, and longer payloads of edge octets
Payloads ==
    {<<b>> : b \in Octets} \cup SeqsUpTo(EdgeOctets, MaxPayloadLen)

\* OID strings that are none of the KeyUsage constants
\* (basicConstraints 2.5.29.19 and an unassigned id-kp arc)
UnknownOidStrings == { <<2, 5, 29, 19>>, <<1, 3, 6, 1, 5, 5, 7, 3, 10>> }

KnownOidStrings ==
    { OID_KEY_USAGE_DIGITAL_SIGNATURE, OID_KEY_USAGE_CRL_SIGN,
      OID_KEY_USAGE_CONTENT_COMMITMENT, OID_KEY_USAGE_KEY_ENCIPHERMENT,
      OID_KEY_USAGE_DATA_ENCIPHERMENT, OID_KEY_USAGE_KEY_AGREEMENT,
      OID_KEY_USAGE_KEY_CERT_SIGN, OID_KEY_USAGE_ENCIPHER_ONLY,
      OID_KEY_USAGE_DECIPHER_ONLY }

InputOids ==
    {ObjectIdentifier_from_str(s) : s \in KnownOidStrings \cup UnknownOidStrings}

Tags == {"Boolean", "Integer", "OctetString"}

\* the values of an Attribute: none, one Any, or several Boolean-tagged Any
\* (a SetOfVec holds distinct values in ascending order)
ValueSets ==
    {<<>>}
    \cup {<<[tag |-> "Boolean", value |-> p]>> : p \in Payloads}
    \cup {<<[tag |-> t, value |-> p]>> :
            t \in Tags \ {"Boolean"}, p \in SeqsUpTo(EdgeOctets, 1)}
    \cup {[i \in 1..k |-> [tag |-> "Boolean", value |-> <<IF i = 1 THEN 0 ELSE 255>>]]
            : k \in 2..MaxValues}

----------------------------------------------------------------------------
(* Operations of the KeyUsage codec *)

\* One behaviour follows one call: the functions keep no state between calls.
Idle == op = "none"

Call(name, input, output) ==
    /\ op' = name
    /\ arg' = input
    /\ ret' = output
    /\ calls' = <<>>
    /\ UNCHANGED keyCertSignArm

\* a call of an operation that calls other operations of the model
Run(name, input, outcome) ==
    /\ op' = name
    /\ arg' = input
    /\ ret' = outcome.result
    /\ calls' = outcome.calls
    /\ UNCHANGED keyCertSignArm

EncodeExtension ==
    /\ Idle
    /\ \E v \in KeyUsage : Call("Extension::from", v, Extension_from_KeyUsage(v))

EncodeAttribute ==
    /\ Idle
    /\ \E v \in KeyUsage : Call("Attribute::from", v, Attribute_from_KeyUsage(v))

DecodeExtension ==
    /\ Idle
    /\ \E id \in InputOids, c \in BOOLEAN, p \in Payloads :
        LET e == [extn_id |-> id, critical |-> c, extn_value |-> p]
        IN  Call("KeyUsage::try_from(Extension)", e, KeyUsage_try_from_Extension(e))

DecodeAttribute ==
    /\ Idle
    /\ \E id \in InputOids, vs \in ValueSets :
        LET a == [oid |-> id, values |-> vs]
        IN  Call("KeyUsage::try_from(Attribute)", a, KeyUsage_try_from_Attribute(a))

----------------------------------------------------------------------------
(* Inputs of the certificate decoders *)

NameSet == {Names[i] : i \in 1..Len(Names)}

AlgorithmSet == {Algorithms[i] : i \in 1..Len(Algorithms)}

\* an extension this profile does not know, marked critical
UnknownCriticalInput ==
    [extn_id |-> ObjectIdentifier_from_str(<<2, 5, 29, 99>>),
     critical |-> TRUE,
     extn_value |-> <<0>>]

\* version and extensions of the input certificates: version 3 with the CA
\* flag set or unset, without extensions, with an unknown critical extension,
\* and version 1
Shapes ==
    { [version |-> 2, extensions |-> Extensions_from_Capabilities([ca |-> TRUE])],
      [version |-> 2, extensions |-> Extensions_from_Capabilities([ca |-> FALSE])],
      [version |-> 2, extensions |-> <<>>],
      [version |-> 2, extensions |-> <<UnknownCriticalInput>>],
      [version |-> 0, extensions |-> Extensions_from_Capabilities([ca |-> FALSE])] }

\* a well-formed and an ill-formed validity period
ValidityInputs ==
    { [not_before |-> 0, not_after |-> MaxTime],
      [not_before |-> MaxTime, not_after |-> 0] }

TbsCertificateInputs ==
    { [ version |-> sh.version,
        serial_number |-> sn,
        signature |-> a,
        issuer |-> i,
        validity |-> v,
        subject |-> su,
        subject_public_key_info |-> 1,
        extensions |-> sh.extensions ] :
        sh \in Shapes,
        sn \in {x \in SerialNumbers : Len(x) <= MaxSerialOctets},
        a \in AlgorithmSet, i \in NameSet, v \in ValidityInputs, su \in NameSet }

\* the certificates handed to the decoders: any body, either algorithm in
\* the outer field, signed by either key
CertificateInputs ==
    { [ tbs_certificate |-> tbs,
        signature_algorithm |-> a,
        signature |-> to_bitstring(sign(k, TbsCertificate_to_der(tbs))) ] :
        tbs \in TbsCertificateInputs, a \in AlgorithmSet, k \in PrivateKeys }

\* DER input: the encoding of a certificate, whole or cut short
Cut(bytes, n) == SubSeq(bytes, 1, Len(bytes) - n)

PemLabels == {"CERTIFICATE", "CERTIFICATE REQUEST"}

----------------------------------------------------------------------------
(* Operations on certificates *)

IssueCa ==
    /\ Idle
    /\ \E id_csr \in IdCsrs, signing_key \in PrivateKeys,
          serial_number \in SerialNumbers, issuer \in NameSet,
          validity \in Validities :
          Run("from_ca_csr",
              [id_csr |-> id_csr, signing_key |-> signing_key,
               serial_number |-> serial_number, issuer |-> issuer,
               validity |-> validity],
              from_ca_csr(id_csr, signing_key, serial_number, issuer, validity))

IssueActor ==
    /\ Idle
    /\ \E id_csr \in IdCsrs, signing_key \in PrivateKeys,
          serial_number \in SerialNumbers, issuer \in NameSet,
          validity \in Validities :
          Run("from_actor_csr",
              [id_csr |-> id_csr, signing_key |-> signing_key,
               serial_number |-> serial_number, issuer |-> issuer,
               validity |-> validity],
              from_actor_csr(id_csr, signing_key, serial_number, issuer, validity))

\* an issued certificate is at hand
Issued == op \in {"from_ca_csr", "from_actor_csr"} /\ ret.ok

\* the issued certificate is encoded
ToDer ==
    /\ Issued
    /\ Call("to_der", ret.val, to_der(ret.val))

ToPem ==
    /\ Issued
    /\ \E line_ending \in LineEndings :
          Call("to_pem", [self |-> ret.val, line_ending |-> line_ending],
               to_pem(ret.val, line_ending))

\* the issued certificate is converted to the generic container
ConvertIdCert ==
    /\ Issued
    /\ Call("Certificate::try_from(IdCert)", ret.val, Certificate_try_from_IdCert(ret.val))

ConvertCertificate ==
    /\ Idle
    /\ \E c \in CertificateInputs :
          Call("IdCert::try_from(Certificate)", c, IdCert_try_from_Certificate(c))

FromDerUnchecked ==
    /\ Idle
    /\ \E c \in CertificateInputs, n \in 0..1 :
          LET value == Cut(Certificate_to_der(c), n)
          IN  Call("from_der_unchecked", value, from_der_unchecked(value))

FromDer ==
    /\ Idle
    /\ \E c \in CertificateInputs, n \in 0..1, target \in Targets :
          LET value == Cut(Certificate_to_der(c), n)
          IN  Run("from_der", [value |-> value, target |-> target],
                  from_der(value, target))

FromPemUnchecked ==
    /\ Idle
    /\ \E c \in CertificateInputs, label \in PemLabels :
          LET pem == [Certificate_to_pem(c, "LF") EXCEPT !.label = label]
          IN  Call("from_pem_unchecked", pem, from_pem_unchecked(pem))

FromPem ==
    /\ Idle
    /\ \E c \in CertificateInputs, label \in PemLabels, target \in Targets :
          LET pem == [Certificate_to_pem(c, "LF") EXCEPT !.label = label]
          IN  Run("from_pem", [pem |-> pem, target |-> target],
                  from_pem(pem, target))

\* the octets to sign are taken from the issued certificate
SignatureData ==
    /\ Issued
    /\ Call("signature_data", ret.val, signature_data(ret.val))

\* a certificate is at hand: an issued one, or one converted unchecked
Held == Issued \/ (op = "IdCert::try_from(Certificate)" /\ ret.ok)

ValidAt ==
    /\ Held
    /\ \E time \in Times, target \in Targets :
          Call("valid_at", [self |-> ret.val, time |-> time, target |-> target],
               valid_at(ret.val, time, target))

----------------------------------------------------------------------------

Init ==
    /\ keyCertSignArm \in 1..Len(EarlierArms)
    /\ op = "none"
    /\ arg = <<>>
    /\ ret = <<>>
    /\ calls = <<>>

Next ==
    \/ EncodeExtension
    \/ EncodeAttribute
    \/ DecodeExtension
    \/ DecodeAttribute
    \/ IssueCa
    \/ IssueActor
    \/ ToDer
    \/ ToPem
    \/ ConvertIdCert
    \/ ConvertCertificate
    \/ FromDerUnchecked
    \/ FromDer
    \/ FromPemUnchecked
    \/ FromPem
    \/ SignatureData
    \/ ValidAt

Spec == Init /\ [][Next]_vars

----------------------------------------------------------------------------
(* Claims about the KeyUsage codec *)

MalformedBoolean ==
    IncompatibleVariantForConversion("Encountered unexpected value for Boolean tag")

\* the OIDs the nine variants are encoded with
VariantOids == {ObjectIdentifier_from_KeyUsage(v) : v \in KeyUsage}

BooleanOctets == {<<0>>, <<1>>, <<255>>}

\* C1: decoding the extension produced by encoding v returns Ok(v), for each
\* of the nine variants and both flags.
C1_ExtensionRoundTrip ==
    op = "Extension::from" => KeyUsage_try_from_Extension(ret) = Ok(arg)

\* C2: decoding the attribute produced by encoding v returns Ok(v), for each
\* of the nine variants and both flags.
C2_AttributeRoundTrip ==
    op = "Attribute::from" => KeyUsage_try_from_Attribute(ret) = Ok(arg)

\* C3: the extn_value of Extension::from(v) is exactly one octet, 0xFF for a
\* true flag and 0x00 for a false one, and extn_id is the OID of v's variant.
C3_ExtensionPayloadOneOctet ==
    op = "Extension::from" =>
        /\ ret.extn_value = <<IF arg.flag THEN 255 ELSE 0>>
        /\ ret.extn_id = ObjectIdentifier_from_KeyUsage(arg)

\* C4 as stated: a boolean payload other than the single octet 0x00, 0x01 or
\* 0xFF fails with the malformed-boolean error on both decode paths, for
\* every OID and every criticality flag.
C4_MalformedBooleanEveryOid ==
    /\ (op = "KeyUsage::try_from(Extension)" /\ arg.extn_value \notin BooleanOctets)
          => ret = MalformedBoolean
    /\ (/\ op = "KeyUsage::try_from(Attribute)"
        /\ Len(arg.values) = 1
        /\ arg.values[1].tag = "Boolean"
        /\ arg.values[1].value \notin BooleanOctets)
          => ret = MalformedBoolean

\* C4 amended: a boolean payload other than the single octet 0x00, 0x01 or
\* 0xFF fails with the malformed-boolean error on the attribute path for every
\* OID, and on the extension path for every OID and criticality flag except
\* a critical extension whose OID is none of the KeyUsage OIDs, which fails
\* with UnknownCriticalExtension instead.
C4_MalformedBoolean ==
    /\ (op = "KeyUsage::try_from(Extension)" /\ arg.extn_value \notin BooleanOctets)
          => ret = IF arg.critical /\ arg.extn_id \notin VariantOids
                   THEN UnknownCriticalExtension(arg.extn_id)
                   ELSE MalformedBoolean
    /\ (/\ op = "KeyUsage::try_from(Attribute)"
        /\ Len(arg.values) = 1
        /\ arg.values[1].tag = "Boolean"
        /\ arg.values[1].value \notin BooleanOctets)
          => ret = MalformedBoolean

\* a nonzero single octet that is no boolean was decoded from a non-critical
\* extension with a KeyUsage OID, and rejected as a malformed boolean
C4_Witness ==
    /\ op = "KeyUsage::try_from(Extension)"
    /\ arg.extn_value = <<2>>
    /\ ~arg.critical
    /\ arg.extn_id \in VariantOids
    /\ ret = MalformedBoolean

\* C5: an extension whose OID is none of the KeyUsage OIDs fails with
\* UnknownCriticalExtension carrying that OID when critical, whatever its
\* payload, and never yields UnknownCriticalExtension when not critical.
C5_UnknownCritical ==
    (op = "KeyUsage::try_from(Extension)" /\ arg.extn_id \notin VariantOids) =>
        /\ arg.critical => ret = UnknownCriticalExtension(arg.extn_id)
        /\ ~arg.critical => ~(~ret.ok /\ ret.err = "UnknownCriticalExtension")

\* a critical extension with an unknown OID and a malformed payload was
\* rejected as an unknown critical extension
C5_Witness ==
    /\ op = "KeyUsage::try_from(Extension)"
    /\ arg.extn_id \notin VariantOids
    /\ arg.critical
    /\ arg.extn_value = <<2>>
    /\ ret = UnknownCriticalExtension(arg.extn_id)

----------------------------------------------------------------------------
(* Claims about issuance, decoding and conversion *)

Range(f) == {f[i] : i \in DOMAIN f}

\* the certificate body an issuance assembles from its arguments
AssembledTbs(a) ==
    [ serial_number |-> a.serial_number,
      signature_algorithm |-> a.signing_key.algorithm,
      issuer |-> a.issuer,
      validity |-> a.validity,
      subject |-> a.id_csr.inner_csr.subject,
      subject_public_key |-> a.id_csr.inner_csr.subject_public_key,
      capabilities |-> a.id_csr.inner_csr.capabilities ]

IssuedFor == IF op = "from_ca_csr" THEN "HomeServer" ELSE "Actor"

\* C6: from_ca_csr returns Ok(cert) only if the assembled certificate, body
\* and signature, passes validate(Some(HomeServer)), from_actor_csr only if
\* it passes validate(Some(Actor)); validation runs after signing and before
\* the return; when validation or the DER encoding of the body fails the
\* operation returns Err, which carries no certificate.
C6_TwoPhaseIssuance ==
    op \in {"from_ca_csr", "from_actor_csr"} =>
        LET der == IdCertTbs_to_der(AssembledTbs(arg))
        IN  /\ ret.ok =>
                  /\ ret.val.id_cert_tbs = AssembledTbs(arg)
                  /\ ret.val.signature = sign(arg.signing_key, der.val)
                  /\ validate(ret.val, IssuedFor).ok
                  /\ calls = <<"to_der", "sign", "validate">>
            /\ ~der.ok => ~ret.ok
            /\ (/\ der.ok
                /\ ~validate([id_cert_tbs |-> AssembledTbs(arg),
                              signature |-> sign(arg.signing_key, der.val)],
                             IssuedFor).ok)
                  => ~ret.ok /\ calls = <<"to_der", "sign", "validate">>
            /\ ~ret.ok => "val" \notin DOMAIN ret

\* a home server issuance signed the body, validated the assembled
\* certificate and returned the validation error
C6_Witness ==
    /\ op = "from_ca_csr"
    /\ ~ret.ok
    /\ ret.err = "ConstraintError"
    /\ calls = <<"to_der", "sign", "validate">>

\* serial number, issuer and validity are valid, and so is the request
\* apart from its CA flag
OtherwiseValid(a) ==
    /\ Len(a.serial_number) <= MaxSerialOctets
    /\ \E i \in 1..Len(a.serial_number) : a.serial_number[i] # 0
    /\ NameConforms(a.issuer)
    /\ a.validity.not_before <= a.validity.not_after
    /\ NameConforms(a.id_csr.inner_csr.subject)

C8_NoTargetUnchecked ==
    /\ (op = "from_der" /\ arg.target = "None")
          => /\ "validate" \notin Range(calls)
             /\ ret = from_der_unchecked(arg.value)
    /\ (op = "from_pem" /\ arg.target = "None")
          => /\ "validate" \notin Range(calls)
             /\ ret = from_pem_unchecked(arg.pem)

\* C8 amended: with no target, from_der (from_pem) still calls
\* validate(None) on every value that parses and converts: it returns Ok(c)
\* exactly when from_der_unchecked (from_pem_unchecked) returns Ok(c) and
\* c.validate(None) succeeds, and the error of the unchecked decoder when
\* that one fails.
C8_NoTargetValidatesNone ==
    /\ (op = "from_der" /\ arg.target = "None")
          => LET unchecked == from_der_unchecked(arg.value)
             IN  /\ ret.ok <=> (unchecked.ok /\ validate(unchecked.val, "None").ok)
                 /\ ret.ok => ret = unchecked
                 /\ ~unchecked.ok => ret = unchecked
                 /\ unchecked.ok => "validate" \in Range(calls)
    /\ (op = "from_pem" /\ arg.target = "None")
          => LET unchecked == from_pem_unchecked(arg.pem)
             IN  /\ ret.ok <=> (unchecked.ok /\ validate(unchecked.val, "None").ok)
                 /\ ret.ok => ret = unchecked
                 /\ ~unchecked.ok => ret = unchecked
                 /\ unchecked.ok => "validate" \in Range(calls)

\* from_der without a target rejected a certificate that the unchecked
\* decoder returns
C8_Witness ==
    /\ op = "from_der"
    /\ arg.target = "None"
    /\ from_der_unchecked(arg.value).ok
    /\ ~ret.ok

\* C9: converting a Certificate into an IdCert fails when the outer
\* signature_algorithm differs from the one in the body, and never returns
\* Ok with a field of the input dropped or changed (the input can be had
\* back from the result).
C9_ConversionKeepsEveryField ==
    op = "IdCert::try_from(Certificate)" =>
        /\ arg.signature_algorithm # arg.tbs_certificate.signature => ~ret.ok
        /\ ret.ok => Certificate_try_from_IdCert(ret.val) = Ok(arg)

FirstMember(bytes) ==
    LET member == Items(Items(bytes).val[1].content).val[1]
    IN  Tlv(member.tag, member.content)

\* C11: signature_data() is the DER encoding of the IdCertTbs alone (the
\* body inside the encoded certificate, without the signature), and the
\* signature of an issued certificate is the signing key's signature over
\* exactly those octets.
C11_SignatureData ==
    /\ op = "signature_data" =>
          /\ ret.ok
          /\ ret.val = FirstMember(to_der(arg).val)
          /\ ret.val # to_der(arg).val
    /\ Issued =>
          /\ signature_data(ret.val).ok
          /\ ret.val.signature = sign(arg.signing_key, signature_data(ret.val).val)

\* the octets to sign were taken from an issued certificate and are the
\* body inside its DER encoding
C11_Witness ==
    /\ op = "signature_data"
    /\ ret.ok
    /\ ret.val = FirstMember(to_der(arg).val)

\* C12: valid_at(t, target) is true exactly when t lies in the validity
\* period, not-before and not-after included, and validate(target)
\* succeeds; in every other case it is false, and it is never an error.
C12_ValidAt ==
    op = "valid_at" =>
        /\ ret \in BOOLEAN
        /\ ret <=>
              /\ arg.self.id_cert_tbs.validity.not_before <= arg.time
              /\ arg.time <= arg.self.id_cert_tbs.validity.not_after
              /\ validate(arg.self, arg.target).ok

\* a certificate in its validity period was found not valid because the
\* validation against the target fails
C12_Witness ==
    /\ op = "valid_at"
    /\ arg.time = arg.self.id_cert_tbs.validity.not_after
    /\ arg.time >= arg.self.id_cert_tbs.validity.not_before
    /\ ~validate(arg.self, arg.target).ok
    /\ ret = FALSE

\* C13: the nine variants have nine pairwise distinct OIDs: the OID a variant
\* is encoded with belongs to no other variant, and the OID match of the
\* decoders takes it to that variant's arm, never to another one.
C13_OidsPairwiseDistinct ==
    op \in {"Extension::from", "Attribute::from"} =>
        /\ \A w \in KeyUsage :
              w.variant # arg.variant =>
                  ObjectIdentifier_from_KeyUsage(w) # ObjectIdentifier_from_KeyUsage(arg)
        /\ MatchOid(ObjectIdentifier_to_string(ObjectIdentifier_from_KeyUsage(arg)),
                    arg.flag) = Ok(arg)

\* C14: every Extension produced from a KeyUsage value is marked critical,
\* whatever the variant and whatever the flag.
C14_AlwaysCritical ==
    /\ op = "Extension::from" => ret.critical = TRUE
    /\ \A v \in KeyUsage : Extension_from_KeyUsage(v).critical = TRUE

C14_Witness ==
    /\ op = "Extension::from"
    /\ arg = [variant |-> "KeyCertSign", flag |-> FALSE]
    /\ ret.critical = TRUE

\* C15: decoding an attribute succeeds only for exactly one Boolean-tagged
\* value holding the single octet 0x00 (flag false) or 0x01/0xFF (flag true)
\* under the OID of a variant, and then returns the variant that OID belongs
\* to with that flag; every other attribute is refused with
\* IncompatibleVariantForConversion.
C15_AttributeFailClosed ==
    op = "KeyUsage::try_from(Attribute)" =>
        LET accepted ==
                /\ Len(arg.values) = 1
                /\ arg.values[1].tag = "Boolean"
                /\ arg.values[1].value \in BooleanOctets
                /\ arg.oid \in VariantOids
        IN  /\ ret.ok <=> accepted
            /\ ~ret.ok => ret.err = "IncompatibleVariantForConversion"
            /\ ret.ok =>
                  \A v \in KeyUsage :
                      ObjectIdentifier_from_KeyUsage(v) = arg.oid =>
                          ret.val = [variant |-> v.variant,
                                     flag |-> arg.values[1].value # <<0>>]

====
